---- MODULE Spec2Model ----
(***************************************************************************)
(* Model of lucid_dreamer's WBTB alarm (src/src/main.rs): the alarm store  *)
(* (alarms.json), schedule_alarm's delay computation, the background       *)
(* firing sequence (trigger_alarm and the countdown thread it spawns) and  *)
(* the foreground wait-loop of main; and the practice history with the     *)
(* statistics computed from it.                                            *)
(*                                                                         *)
(* Five specifications share the variables:                                *)
(*   Spec       one `alarm set` process: set_wbtb_alarm, then the          *)
(*              foreground loop, the keyboard and the two background       *)
(*              threads, interleaved;                                      *)
(*   FairSpec   Spec with weak fairness on every thread step (the OS       *)
(*              schedules every runnable thread), none on the keyboard;    *)
(*   StoreSpec  sequences of command invocations on the alarm store        *)
(*              (set / cancel / daily entry), each handler one step;       *)
(*   SchedSpec  schedule_alarm applied to sampled clock readings and       *)
(*              wake_time strings;                                         *)
(*   PracticeSpec  `train` and `analyze` invocations on the practice       *)
(*              history (technique_history.json), each handler one step.   *)
(***************************************************************************)
EXTENDS Integers, Sequences, FiniteSets, TLC

VARIABLES
    alarms_file,    \* alarms.json: [kind |-> "absent" | "malformed" | "json", alarms |-> <<...>>]
    result,         \* what the last command handler returned: "none" before any
    message,        \* the last status line a command on the alarm store printed
    history_file,   \* technique_history.json: [kind |-> "absent" | "malformed" | "json", doc |-> <<...>>]
    stats,          \* what the last calculate_technique_effectiveness returned
    lastAssigned,   \* the id computed by the most recent set_wbtb_alarm (0: none yet)
    maxAssigned,    \* the largest id any set_wbtb_alarm computed so far
    now,            \* Utc::now() read by schedule_alarm, in ms since today's midnight
    wake_time,      \* the wake_time argument, a sequence of characters
    awake_minutes,  \* the awake_minutes argument (u32)
    secs,           \* the delay schedule_alarm computed, whole seconds
    ALARM_ACTIVE,   \* static ALARM_ACTIVE: AtomicBool
    fg_pc,          \* main's position: none, poll, check, waiting, wait_sleep, completed, cancelled, failed
    keys,           \* terminal key events not yet read
    t1_pc,          \* timer thread (schedule_alarm's closure, trigger_alarm): none, sleep, alert, blink, announce, done
    blink_i,        \* iterations of the flash loop done
    t2_pc,          \* countdown thread (trigger_alarm's closure): none, start, tick, cue, clear, done
    min,            \* the countdown's loop variable
    out             \* what the background threads have printed / played, in order

storeVars == <<alarms_file, lastAssigned, maxAssigned>>
schedVars == <<now, wake_time, awake_minutes, secs>>
procVars  == <<ALARM_ACTIVE, fg_pc, keys, t1_pc, blink_i, t2_pc, min, out>>
practiceVars == <<history_file, stats>>
vars == <<alarms_file, result, message, history_file, stats, lastAssigned, maxAssigned, now, wake_time,
          awake_minutes, secs, ALARM_ACTIVE, fg_pc, keys, t1_pc, blink_i,
          t2_pc, min, out>>

(***************************************************************************)
(* Bounds of the model.                                                    *)
(***************************************************************************)
MaxAwake == 2
MaxKeys == 1
MaxAlarms == 3
MaxId == 4
MaxHistory == 4
MaxDay == 2

(***************************************************************************)
(* Program constants.                                                      *)
(***************************************************************************)
BlinkCount == 10
DefaultAwake == 30

DayMs == 24 * 60 * 60 * 1000

None == <<>>
Some(v) == <<v>>

Max(a, b) == IF a >= b THEN a ELSE b

RECURSIVE IsPrefix(_, _)
IsPrefix(s, t) ==
    IF s = <<>> THEN TRUE
    ELSE IF t = <<>> THEN FALSE
    ELSE Head(s) = Head(t) /\ IsPrefix(Tail(s), Tail(t))

(***************************************************************************)
(* Inputs.  A wake_time is the string the user typed, character by         *)
(* character.                                                              *)
(***************************************************************************)
W0000 == <<"0", "0", ":", "0", "0">>
W0630 == <<"0", "6", ":", "3", "0">>
W630  == <<"6", ":", "3", "0">>
W2359 == <<"2", "3", ":", "5", "9">>
W2400 == <<"2", "4", ":", "0", "0">>
W1260 == <<"1", "2", ":", "6", "0">>
W2599 == <<"2", "5", ":", "9", "9">>
WNoColon == <<"0", "6", "3", "0">>
WLetters == <<"a", "b", ":", "c", "d">>

\* arguments of the `alarm set` invocations of Spec and StoreSpec
WakeArgs == {W0630, W2599}
Bedtimes == {"23:00"}
Today == "2026-01-01"

Ms(h, m, s, frac) == ((h * 60 + m) * 60 + s) * 1000 + frac

\* clock readings of Spec and StoreSpec
NowArgs == {Ms(22, 0, 0, 0), Ms(6, 29, 59, 500)}

\* SchedSpec's samples: around midnight, around 06:30, the two instants of
\* the documented scenario, each with several sub-second parts
WakeSamples == {W0000, W0630, W630, W2359, W2400, W1260, WNoColon, WLetters}
NowSeconds == {Ms(0, 0, 0, 0), Ms(0, 0, 1, 0), Ms(6, 29, 59, 0), Ms(6, 30, 0, 0),
               Ms(6, 30, 1, 0), Ms(7, 0, 0, 0), Ms(22, 0, 0, 0), Ms(23, 59, 0, 0),
               Ms(23, 59, 59, 0)}
SubSeconds == {0, 1, 500, 999}
NowSamples == {s + f : s \in NowSeconds, f \in SubSeconds}

(***************************************************************************)
(* NaiveTime::parse_from_str(wake_time, "%H:%M"): one or two digits, a     *)
(* colon, one or two digits, nothing after; hour 0..23, minute 0..59.      *)
(***************************************************************************)
IsDigit(c) == c \in {"0", "1", "2", "3", "4", "5", "6", "7", "8", "9"}

DigitVal(c) ==
    CASE c = "0" -> 0 [] c = "1" -> 1 [] c = "2" -> 2 [] c = "3" -> 3
      [] c = "4" -> 4 [] c = "5" -> 5 [] c = "6" -> 6 [] c = "7" -> 7
      [] c = "8" -> 8 [] c = "9" -> 9

\* a number of one or two digits starting at position pos
ScanNumber(s, pos) ==
    LET d1 == pos <= Len(s) /\ IsDigit(s[pos])
        d2 == d1 /\ pos + 1 <= Len(s) /\ IsDigit(s[pos + 1])
    IN  IF d2 THEN [ok |-> TRUE, val |-> 10 * DigitVal(s[pos]) + DigitVal(s[pos + 1]),
                    next |-> pos + 2]
        ELSE IF d1 THEN [ok |-> TRUE, val |-> DigitVal(s[pos]), next |-> pos + 1]
        ELSE [ok |-> FALSE, val |-> 0, next |-> pos]

ParseHM(s) ==
    LET bad == [ok |-> FALSE, hour |-> 0, minute |-> 0]
        h == ScanNumber(s, 1)
    IN  IF ~h.ok \/ h.next > Len(s) THEN bad
        ELSE IF s[h.next] # ":" THEN bad
        ELSE LET m == ScanNumber(s, h.next + 1)
             IN  IF ~m.ok \/ m.next # Len(s) + 1 THEN bad
                 ELSE IF h.val > 23 \/ m.val > 59 THEN bad
                 ELSE [ok |-> TRUE, hour |-> h.val, minute |-> m.val]

(***************************************************************************)
(* schedule_alarm's duration, in ms, from a clock reading t (ms since      *)
(* today's midnight) and the parsed wake time.                             *)
(***************************************************************************)
WakeToday(hm) == Ms(hm.hour, hm.minute, 0, 0)

\* a slip: the next-day branch forgotten
ScheduleDuration_NoRollover(t, hm) == WakeToday(hm) - t

\* a slip: >= for >
ScheduleDuration_Geq(t, hm) ==
    IF WakeToday(hm) >= t THEN WakeToday(hm) - t
    ELSE WakeToday(hm) + DayMs - t

ScheduleDuration(t, hm) ==
    IF WakeToday(hm) > t THEN WakeToday(hm) - t
    ELSE WakeToday(hm) + DayMs - t

\* Duration::num_seconds: whole seconds, the sub-second part dropped
NumSeconds(d) == d \div 1000

(***************************************************************************)
(* The alarm store.                                                        *)
(***************************************************************************)
Absent == [kind |-> "absent", alarms |-> <<>>]
Malformed == [kind |-> "malformed", alarms |-> <<>>]
JsonFile(alarms) == [kind |-> "json", alarms |-> alarms]

\* a slip: a document that does not parse read as no alarms
load_alarms_Lenient ==
    IF alarms_file.kind = "json" THEN [ok |-> TRUE, alarms |-> alarms_file.alarms]
    ELSE [ok |-> TRUE, alarms |-> <<>>]

load_alarms ==
    CASE alarms_file.kind = "absent" -> [ok |-> TRUE, alarms |-> <<>>]
      [] alarms_file.kind = "json" -> [ok |-> TRUE, alarms |-> alarms_file.alarms]
      [] OTHER -> [ok |-> FALSE, alarms |-> <<>>]

\* a slip: the first alarm's id, not the last one's
NextId_First(alarms) == IF alarms = <<>> THEN 1 ELSE alarms[1].id + 1

\* a slip: the number of alarms plus one
NextId_Count(alarms) == Len(alarms) + 1

\* alarms.last().map_or(1, |a| a.id + 1)
NextId(alarms) == IF alarms = <<>> THEN 1 ELSE alarms[Len(alarms)].id + 1

NewAlarm(id, bedtime, wt, am) ==
    [id |-> id, bedtime |-> bedtime, wake_time |-> wt, awake_minutes |-> am,
     enabled |-> TRUE, last_triggered |-> None, success |-> None]

\* a slip: position(..).unwrap_or(first index)
Position_OrFirst(alarms, id) ==
    IF \E i \in 1..Len(alarms) : alarms[i].id = id
    THEN CHOOSE i \in 1..Len(alarms) :
            /\ alarms[i].id = id
            /\ \A j \in 1..(i - 1) : alarms[j].id # id
    ELSE IF alarms = <<>> THEN 0 ELSE 1

\* alarms.iter().position(|a| a.id == id): 0 when there is none
Position(alarms, id) ==
    IF \E i \in 1..Len(alarms) : alarms[i].id = id
    THEN CHOOSE i \in 1..Len(alarms) :
            /\ alarms[i].id = id
            /\ \A j \in 1..(i - 1) : alarms[j].id # id
    ELSE 0

\* a slip: Vec::swap_remove(index), the last alarm moved into the gap
Remove_Swap(alarms, index) ==
    [i \in 1..(Len(alarms) - 1) |-> IF i = index THEN alarms[Len(alarms)] ELSE alarms[i]]

\* Vec::remove(index)
Remove(alarms, index) ==
    SubSeq(alarms, 1, index - 1) \o SubSeq(alarms, index + 1, Len(alarms))

Ids(alarms) == {alarms[i].id : i \in 1..Len(alarms)}

\* a status line: what it says and the number it names
Msg(text, n) == [text |-> text, n |-> n]

NoHistory == [kind |-> "absent", doc |-> <<>>]
NoStats == [computed |-> FALSE, by |-> <<>>]

(***************************************************************************)
(* The practice history.  A TechniqueOutcome in memory, and the JSON value *)
(* serde writes for it under #[serde(tag = "type", content = "data")]: a   *)
(* unit variant has no "data" member.                                      *)
(***************************************************************************)
Unattempted == [tag |-> "Unattempted"]
Failed == [tag |-> "Failed"]
PartialLucid == [tag |-> "PartialLucid"]
FullLucid(control_level) == [tag |-> "FullLucid", control_level |-> control_level]

\* the calendar days the clock can show, as Utc::now().format("%Y-%m-%d") prints them
Dates == <<"2026-01-01", "2026-01-02", "2026-01-03", "2026-01-04">>
FormatDate(d) == Dates[d]
DayOf(date) == CHOOSE d \in 1..Len(Dates) : Dates[d] = date

Clamp(v, lo, hi) == IF v < lo THEN lo ELSE IF v > hi THEN hi ELSE v

\* control.trim().parse::<u8>().unwrap_or(3): control is None when the line is not a number
ParseControl(control) ==
    IF control # None /\ control[1] >= 0 /\ control[1] <= 255 THEN control[1] ELSE 3

\* practice_technique's reading of the outcome menu
SelectOutcome(choice, control) ==
    IF choice = "1" THEN Failed
    ELSE IF choice = "2" THEN PartialLucid
    ELSE IF choice = "3" THEN FullLucid(Clamp(ParseControl(control), 1, 5))
    ELSE Unattempted

OutcomeToJson_NoData(outcome) == [type |-> outcome.tag]

OutcomeToJson(outcome) ==
    IF outcome.tag = "FullLucid"
    THEN [type |-> "FullLucid", data |-> [control_level |-> outcome.control_level]]
    ELSE [type |-> outcome.tag]

\* what serde accepts as a TechniqueOutcome
IsOutcomeJson(j) ==
    /\ "type" \in DOMAIN j
    /\ j.type \in {"Unattempted", "Failed", "PartialLucid", "FullLucid"}
    /\ j.type = "FullLucid" =>
          /\ "data" \in DOMAIN j
          /\ "control_level" \in DOMAIN j.data
          /\ j.data.control_level \in 0..255

OutcomeFromJson(j) ==
    IF j.type = "FullLucid"
    THEN FullLucid(j.data.control_level)
    ELSE [tag |-> j.type]

PracticeToJson(practice) ==
    [technique |-> practice.technique,
     date |-> practice.date,
     duration_minutes |-> practice.duration_minutes,
     outcome |-> OutcomeToJson(practice.outcome)]

PracticeFromJson(j) ==
    [technique |-> j.technique,
     date |-> j.date,
     duration_minutes |-> j.duration_minutes,
     outcome |-> OutcomeFromJson(j.outcome)]

MalformedHistory == [kind |-> "malformed", doc |-> <<>>]
HistoryJson(history) ==
    [kind |-> "json", doc |-> [i \in 1..Len(history) |-> PracticeToJson(history[i])]]

\* load_technique_history on a given document: no file, or one serde rejects, is no history
ReadHistory(file) ==
    IF /\ file.kind = "json"
       /\ \A i \in 1..Len(file.doc) : IsOutcomeJson(file.doc[i].outcome)
    THEN [i \in 1..Len(file.doc) |-> PracticeFromJson(file.doc[i])]
    ELSE <<>>

load_technique_history == ReadHistory(history_file)

(***************************************************************************)
(* calculate_technique_effectiveness: the fold over the history.  A        *)
(* success_rate is kept as the exact quotient num / den; f32 rounding is   *)
(* not modelled.                                                           *)
(***************************************************************************)
IsSuccess_FullOnly(outcome) == outcome.tag = "FullLucid"

IsSuccess(outcome) == outcome.tag \in {"PartialLucid", "FullLucid"}

Rate(successes, attempts) == [num |-> successes * 100, den |-> attempts]
ZeroRate == [num |-> 0, den |-> 1]

NewStats(date) ==
    [attempts |-> 0,
     successes |-> 0,
     last_practiced |-> date,
     success_rate |-> ZeroRate,
     optimal_conditions |-> <<>>]

\* one iteration of the loop over the history
Merge(by, practice) ==
    LET t == practice.technique
        entry == IF t \in DOMAIN by THEN by[t] ELSE NewStats(practice.date)
        attempts == entry.attempts + 1
        successes == entry.successes + (IF IsSuccess(practice.outcome) THEN 1 ELSE 0)
        updated == [entry EXCEPT !.attempts = attempts,
                                 !.successes = successes,
                                 !.success_rate = IF attempts > 0
                                                  THEN Rate(successes, attempts)
                                                  ELSE @]
    IN  [k \in DOMAIN by \cup {t} |-> IF k = t THEN updated ELSE by[k]]

RECURSIVE Fold(_, _)
Fold(history, by) ==
    IF history = <<>> THEN by ELSE Fold(Tail(history), Merge(by, Head(history)))

\* the second loop: every optimal_conditions value divided by successes
Normalize(by) ==
    [k \in DOMAIN by |->
        [by[k] EXCEPT !.optimal_conditions =
            [c \in DOMAIN by[k].optimal_conditions |->
                Rate(by[k].optimal_conditions[c], by[k].successes)]]]

calculate_technique_effectiveness == Normalize(Fold(load_technique_history, <<>>))

(***************************************************************************)
(* schedule_alarm: read the clock, parse wake_time, compute the delay and  *)
(* spawn the timer thread.  Its Result is what set_wbtb_alarm returns.     *)
(***************************************************************************)
ScheduleAlarm(wt, am, t) ==
    LET hm == ParseHM(wt)
    IN  /\ now' = t
        /\ wake_time' = wt
        /\ awake_minutes' = am
        /\ IF hm.ok
           THEN /\ secs' = NumSeconds(ScheduleDuration(t, hm))
                /\ t1_pc' = "sleep"
                /\ result' = "ok"
           ELSE /\ secs' = secs
                /\ t1_pc' = "none"
                /\ result' = "InvalidTimeFormat"

(***************************************************************************)
(* `alarm set` in a fresh process: set_wbtb_alarm, and main's entry into   *)
(* the wait-loop when it returned Ok.  The two guards bound the model.     *)
(***************************************************************************)
SetAlarm(bedtime, wt, am, t) ==
    LET loaded == load_alarms
        id == NextId(loaded.alarms)
    IN  /\ ALARM_ACTIVE' = FALSE
        /\ keys' = <<>>
        /\ blink_i' = 0
        /\ t2_pc' = "none"
        /\ min' = 0
        /\ out' = <<>>
        /\ UNCHANGED practiceVars
        /\ IF ~loaded.ok
           THEN /\ result' = "PersistenceError"
                /\ message' = Msg("error", 0)
                /\ fg_pc' = "failed"
                /\ t1_pc' = "none"
                /\ UNCHANGED <<storeVars, schedVars>>
           ELSE /\ Len(loaded.alarms) < MaxAlarms
                /\ id <= MaxId
                /\ alarms_file' = JsonFile(Append(loaded.alarms, NewAlarm(id, bedtime, wt, am)))
                /\ lastAssigned' = id
                /\ maxAssigned' = Max(maxAssigned, id)
                /\ message' = Msg("alarm_set", 0)
                /\ ScheduleAlarm(wt, am, t)
                /\ fg_pc' = IF ParseHM(wt).ok THEN "poll" ELSE "failed"

(***************************************************************************)
(* `alarm cancel <id>`: cancel_alarm.                                      *)
(***************************************************************************)
CancelAlarm(id) ==
    LET loaded == load_alarms
        index == Position(loaded.alarms, id)
    IN  /\ IF ~loaded.ok
           THEN /\ result' = "PersistenceError"
                /\ message' = Msg("error", 0)
                /\ UNCHANGED alarms_file
           ELSE /\ result' = "ok"
                /\ IF index # 0
                   THEN /\ alarms_file' = JsonFile(Remove(loaded.alarms, index))
                        /\ message' = Msg("canceled", id)
                   ELSE /\ message' = Msg("not_found", id)
                        /\ UNCHANGED alarms_file
        /\ UNCHANGED <<lastAssigned, maxAssigned, schedVars, procVars, practiceVars>>

(***************************************************************************)
(* `alarm list`: list_alarms.                                              *)
(***************************************************************************)
ListAlarms ==
    LET loaded == load_alarms
    IN  /\ IF ~loaded.ok
           THEN /\ result' = "PersistenceError"
                /\ message' = Msg("error", 0)
           ELSE /\ result' = "ok"
                /\ message' = IF loaded.alarms = <<>> THEN Msg("no_alarms", 0)
                               ELSE Msg("listed", Len(loaded.alarms))
        /\ UNCHANGED <<storeVars, schedVars, procVars, practiceVars>>

(***************************************************************************)
(* `daily`: the part of daily_entry that touches the alarm store.  The     *)
(* user answers with an alarm id (0: none) and whether it worked.          *)
(***************************************************************************)
\* a slip: the updated alarm taken out and pushed back at the end
MarkUsed_MoveToEnd(alarms, id, success) ==
    LET index == Position(alarms, id)
    IN  IF index = 0 THEN alarms
        ELSE Append(Remove(alarms, index),
                    [alarms[index] EXCEPT !.last_triggered = Some(Today),
                                          !.success = Some(success)])

MarkUsed(alarms, id, success) ==
    LET index == Position(alarms, id)
    IN  [i \in 1..Len(alarms) |->
            IF i = index
            THEN [alarms[i] EXCEPT !.last_triggered = Some(Today),
                                   !.success = Some(success)]
            ELSE alarms[i]]

DailyEntry(id, success) ==
    LET loaded == load_alarms
    IN  /\ IF ~loaded.ok
           THEN /\ result' = "PersistenceError"
                /\ message' = Msg("error", 0)
                /\ UNCHANGED alarms_file
           ELSE /\ result' = "ok"
                /\ message' = Msg("daily", 0)
                /\ IF loaded.alarms # <<>> /\ id > 0 /\ id \in Ids(loaded.alarms)
                   THEN alarms_file' = JsonFile(MarkUsed(loaded.alarms, id, success))
                   ELSE UNCHANGED alarms_file
        /\ UNCHANGED <<lastAssigned, maxAssigned, schedVars, procVars, practiceVars>>

(***************************************************************************)
(* `train <technique>`: record_technique_practice as practice_technique    *)
(* calls it, on day d of the clock.  The technique's metadata file is not  *)
(* part of the model.  The guard bounds the model.                         *)
(***************************************************************************)
RecordPractice(technique, outcome, duration_minutes, d) ==
    LET history == load_technique_history
        practice == [technique |-> technique,
                     date |-> FormatDate(d),
                     duration_minutes |-> duration_minutes,
                     outcome |-> outcome]
    IN  /\ Len(history) < MaxHistory
        /\ history_file' = HistoryJson(Append(history, practice))
        /\ stats' = NoStats
        /\ result' = "ok"
        /\ UNCHANGED <<storeVars, message, schedVars, procVars>>

PracticeTechnique(technique, choice, control, duration, d) ==
    RecordPractice(technique, SelectOutcome(choice, control), duration, d)

(***************************************************************************)
(* `analyze`: calculate_technique_effectiveness.                           *)
(***************************************************************************)
Analyze ==
    /\ stats' = [computed |-> TRUE, by |-> calculate_technique_effectiveness]
    /\ result' = "ok"
    /\ UNCHANGED <<storeVars, message, history_file, schedVars, procVars>>

(***************************************************************************)
(* The process: when main returns the process exits and its background     *)
(* threads end with it.                                                    *)
(***************************************************************************)
ProcessAlive == fg_pc \in {"poll", "check", "waiting", "wait_sleep"}

Ev(name, n) == [ev |-> name, n |-> n]

\* the user presses a key: 'q' or another one
KeyPress(k) ==
    /\ ProcessAlive
    /\ Len(keys) < MaxKeys
    /\ keys' = Append(keys, k)
    /\ UNCHANGED <<storeVars, result, message, practiceVars, schedVars, ALARM_ACTIVE, fg_pc, t1_pc,
                   blink_i, t2_pc, min, out>>

\* event::poll(100 ms), and event::read when there is an event
FgPoll ==
    /\ fg_pc = "poll"
    /\ IF keys = <<>>
       THEN /\ fg_pc' = "check"
            /\ UNCHANGED keys
       ELSE /\ keys' = Tail(keys)
            /\ fg_pc' = IF Head(keys) = "q" THEN "cancelled" ELSE "check"
    /\ UNCHANGED <<storeVars, result, message, practiceVars, schedVars, ALARM_ACTIVE, t1_pc, blink_i,
                   t2_pc, min, out>>

\* a slip: the inner loop entered without the flag having been seen set
FgCheck_NoTest ==
    /\ fg_pc = "check"
    /\ fg_pc' = "waiting"
    /\ UNCHANGED <<storeVars, result, message, practiceVars, schedVars, ALARM_ACTIVE, keys, t1_pc,
                   blink_i, t2_pc, min, out>>

\* if ALARM_ACTIVE.load(..)
FgCheck ==
    /\ fg_pc = "check"
    /\ fg_pc' = IF ALARM_ACTIVE THEN "waiting" ELSE "poll"
    /\ UNCHANGED <<storeVars, result, message, practiceVars, schedVars, ALARM_ACTIVE, keys, t1_pc,
                   blink_i, t2_pc, min, out>>

\* while ALARM_ACTIVE.load(..)
FgWaitCheck ==
    /\ fg_pc = "waiting"
    /\ fg_pc' = IF ALARM_ACTIVE THEN "wait_sleep" ELSE "completed"
    /\ UNCHANGED <<storeVars, result, message, practiceVars, schedVars, ALARM_ACTIVE, keys, t1_pc,
                   blink_i, t2_pc, min, out>>

\* thread::sleep(1 s) in the inner loop
FgWaitSleep ==
    /\ fg_pc = "wait_sleep"
    /\ fg_pc' = "waiting"
    /\ UNCHANGED <<storeVars, result, message, practiceVars, schedVars, ALARM_ACTIVE, keys, t1_pc,
                   blink_i, t2_pc, min, out>>

\* a slip: the flag set only when the flashing is over
T1Trigger_NoFlag ==
    /\ ProcessAlive
    /\ t1_pc = "sleep"
    /\ t1_pc' = "alert"
    /\ UNCHANGED <<storeVars, result, message, practiceVars, schedVars, ALARM_ACTIVE, fg_pc, keys,
                   blink_i, t2_pc, min, out>>

\* a slip: a timer that outlives the process
T1Trigger_Detached ==
    /\ t1_pc = "sleep"
    /\ ALARM_ACTIVE' = TRUE
    /\ t1_pc' = "alert"
    /\ UNCHANGED <<storeVars, result, message, practiceVars, schedVars, fg_pc, keys, blink_i, t2_pc,
                   min, out>>

\* thread::sleep(secs) returns; trigger_alarm stores true
T1Trigger ==
    /\ ProcessAlive
    /\ t1_pc = "sleep"
    /\ ALARM_ACTIVE' = TRUE
    /\ t1_pc' = "alert"
    /\ UNCHANGED <<storeVars, result, message, practiceVars, schedVars, fg_pc, keys, blink_i, t2_pc,
                   min, out>>

\* the banner and play_alarm_sound
T1Alert ==
    /\ ProcessAlive
    /\ t1_pc = "alert"
    /\ out' = out \o <<Ev("alarm_banner", awake_minutes), Ev("alarm_sound", 0)>>
    /\ blink_i' = 0
    /\ t1_pc' = "blink"
    /\ UNCHANGED <<storeVars, result, message, practiceVars, schedVars, ALARM_ACTIVE, fg_pc, keys,
                   t2_pc, min>>

\* for _ in 0..10: screen on, 200 ms, screen off, 200 ms
T1Blink ==
    /\ ProcessAlive
    /\ t1_pc = "blink"
    /\ IF blink_i < BlinkCount
       THEN /\ out' = Append(out, Ev("flash", blink_i))
            /\ blink_i' = blink_i + 1
            /\ UNCHANGED t1_pc
       ELSE /\ t1_pc' = "announce"
            /\ UNCHANGED <<out, blink_i>>
    /\ UNCHANGED <<storeVars, result, message, practiceVars, schedVars, ALARM_ACTIVE, fg_pc, keys,
                   t2_pc, min>>

\* "Alarm triggered at ..", the countdown thread spawned, trigger_alarm returns
T1Spawn ==
    /\ ProcessAlive
    /\ t1_pc = "announce"
    /\ out' = Append(out, Ev("triggered_at", 0))
    /\ t1_pc' = "done"
    /\ t2_pc' = "start"
    /\ UNCHANGED <<storeVars, result, message, practiceVars, schedVars, ALARM_ACTIVE, fg_pc, keys,
                   blink_i, min>>

\* "AWAKE PERIOD STARTED"; the range (1..=awake_minutes).rev() is set up
T2Start ==
    /\ ProcessAlive
    /\ t2_pc = "start"
    /\ out' = Append(out, Ev("awake_started", awake_minutes))
    /\ min' = awake_minutes
    /\ t2_pc' = "tick"
    /\ UNCHANGED <<storeVars, result, message, practiceVars, schedVars, ALARM_ACTIVE, fg_pc, keys,
                   t1_pc, blink_i>>

\* a slip: the range taken as (0..=awake_minutes).rev()
T2Tick_FromZero ==
    /\ ProcessAlive
    /\ t2_pc = "tick"
    /\ IF min >= 0
       THEN /\ out' = Append(out, Ev("remaining", min))
            /\ min' = min - 1
            /\ UNCHANGED t2_pc
       ELSE /\ t2_pc' = "cue"
            /\ UNCHANGED <<out, min>>
    /\ UNCHANGED <<storeVars, result, message, practiceVars, schedVars, ALARM_ACTIVE, fg_pc, keys,
                   t1_pc, blink_i>>

\* one iteration: "{min} minutes remaining...", sleep 60 s
T2Tick ==
    /\ ProcessAlive
    /\ t2_pc = "tick"
    /\ IF min >= 1
       THEN /\ out' = Append(out, Ev("remaining", min))
            /\ min' = min - 1
            /\ UNCHANGED t2_pc
       ELSE /\ t2_pc' = "cue"
            /\ UNCHANGED <<out, min>>
    /\ UNCHANGED <<storeVars, result, message, practiceVars, schedVars, ALARM_ACTIVE, fg_pc, keys,
                   t1_pc, blink_i>>

\* a slip: the flag cleared before the cue is played
T2Cue_ClearFirst ==
    /\ ProcessAlive
    /\ t2_pc = "cue"
    /\ ALARM_ACTIVE' = FALSE
    /\ t2_pc' = "clear"
    /\ UNCHANGED <<storeVars, result, message, practiceVars, schedVars, fg_pc, keys, t1_pc, blink_i,
                   min, out>>

\* "TIME TO RETURN TO SLEEP!" and play_return_to_sleep_sound
T2Cue ==
    /\ ProcessAlive
    /\ t2_pc = "cue"
    /\ out' = out \o <<Ev("return_to_sleep", 0), Ev("sleep_cue", 0)>>
    /\ t2_pc' = "clear"
    /\ UNCHANGED <<storeVars, result, message, practiceVars, schedVars, ALARM_ACTIVE, fg_pc, keys,
                   t1_pc, blink_i, min>>

\* ALARM_ACTIVE.store(false); the thread ends
T2Clear ==
    /\ ProcessAlive
    /\ t2_pc = "clear"
    /\ ALARM_ACTIVE' = FALSE
    /\ t2_pc' = "done"
    /\ UNCHANGED <<storeVars, result, message, practiceVars, schedVars, fg_pc, keys, t1_pc, blink_i,
                   min, out>>

(***************************************************************************)
(* Spec: one `alarm set` process on an empty store.                        *)
(***************************************************************************)
Init ==
    /\ alarms_file = Absent
    /\ result = "none"
    /\ message = Msg("none", 0)
    /\ history_file = NoHistory
    /\ stats = NoStats
    /\ lastAssigned = 0
    /\ maxAssigned = 0
    /\ now = 0
    /\ wake_time = <<>>
    /\ awake_minutes = 0
    /\ secs = 0
    /\ ALARM_ACTIVE = FALSE
    /\ fg_pc = "none"
    /\ keys = <<>>
    /\ t1_pc = "none"
    /\ blink_i = 0
    /\ t2_pc = "none"
    /\ min = 0
    /\ out = <<>>

Start ==
    /\ fg_pc = "none"
    /\ \E b \in Bedtimes, wt \in WakeArgs, am \in 0..MaxAwake, t \in NowArgs :
          SetAlarm(b, wt, am, t)

Key == \E k \in {"q", "x"} : KeyPress(k)

Foreground == FgPoll \/ FgCheck \/ FgWaitCheck \/ FgWaitSleep

Timer == T1Trigger \/ T1Alert \/ T1Blink \/ T1Spawn

Countdown == T2Start \/ T2Tick \/ T2Cue \/ T2Clear

Next ==
    \/ Start
    \/ Key
    \/ FgPoll \/ FgCheck \/ FgWaitCheck \/ FgWaitSleep
    \/ T1Trigger \/ T1Alert \/ T1Blink \/ T1Spawn
    \/ T2Start \/ T2Tick \/ T2Cue \/ T2Clear

Spec == Init /\ [][Next]_vars

\* every thread that can take a step eventually does; the user owes no key
FairSpec ==
    /\ Init /\ [][Next]_vars
    /\ WF_vars(Foreground)
    /\ WF_vars(Timer)
    /\ WF_vars(Countdown)

(***************************************************************************)
(* StoreSpec: command invocations on the store, one after the other.       *)
(***************************************************************************)
\* alarms.json absent, or present and not a JSON list of alarms
StoreInit ==
    /\ alarms_file \in {Absent, Malformed}
    /\ result = "none"
    /\ message = Msg("none", 0)
    /\ history_file = NoHistory
    /\ stats = NoStats
    /\ lastAssigned = 0
    /\ maxAssigned = 0
    /\ now = 0
    /\ wake_time = <<>>
    /\ awake_minutes = 0
    /\ secs = 0
    /\ ALARM_ACTIVE = FALSE
    /\ fg_pc = "none"
    /\ keys = <<>>
    /\ t1_pc = "none"
    /\ blink_i = 0
    /\ t2_pc = "none"
    /\ min = 0
    /\ out = <<>>

\* awake_minutes left at its default, the clock at 22:00
CmdSet ==
    \E b \in Bedtimes, wt \in WakeArgs :
        SetAlarm(b, wt, DefaultAwake, Ms(22, 0, 0, 0))

CmdCancel == \E id \in 0..(MaxId + 1) : CancelAlarm(id)

CmdDaily == \E id \in 0..(MaxId + 1), success \in BOOLEAN : DailyEntry(id, success)

CmdList == ListAlarms

StoreNext == CmdSet \/ CmdCancel \/ CmdList \/ CmdDaily

StoreSpec == StoreInit /\ [][StoreNext]_vars

(***************************************************************************)
(* SchedSpec: schedule_alarm on sampled inputs.                            *)
(***************************************************************************)
SchedInit ==
    /\ alarms_file = Absent
    /\ result = "none"
    /\ message = Msg("none", 0)
    /\ history_file = NoHistory
    /\ stats = NoStats
    /\ lastAssigned = 0
    /\ maxAssigned = 0
    /\ now \in NowSamples
    /\ wake_time \in WakeSamples
    /\ awake_minutes \in 0..MaxAwake
    /\ secs = 0
    /\ ALARM_ACTIVE = FALSE
    /\ fg_pc = "none"
    /\ keys = <<>>
    /\ t1_pc = "none"
    /\ blink_i = 0
    /\ t2_pc = "none"
    /\ min = 0
    /\ out = <<>>

Schedule ==
    /\ result = "none"
    /\ ScheduleAlarm(wake_time, awake_minutes, now)
    /\ UNCHANGED <<storeVars, message, practiceVars, ALARM_ACTIVE, fg_pc, keys,
                   blink_i, t2_pc, min, out>>

SchedNext == Schedule

SchedSpec == SchedInit /\ [][SchedNext]_vars

(***************************************************************************)
(* PracticeSpec: `train` and `analyze` invocations, one after the other.   *)
(***************************************************************************)
\* technique_history.json absent, or present and not a JSON list of practices
PracticeInit ==
    /\ alarms_file = Absent
    /\ result = "none"
    /\ message = Msg("none", 0)
    /\ history_file \in {NoHistory, MalformedHistory}
    /\ stats = NoStats
    /\ lastAssigned = 0
    /\ maxAssigned = 0
    /\ now = 0
    /\ wake_time = <<>>
    /\ awake_minutes = 0
    /\ secs = 0
    /\ ALARM_ACTIVE = FALSE
    /\ fg_pc = "none"
    /\ keys = <<>>
    /\ t1_pc = "none"
    /\ blink_i = 0
    /\ t2_pc = "none"
    /\ min = 0
    /\ out = <<>>

\* <<technique, menu choice, control level typed, minutes practised>>
PracticeInputs ==
    {<<"MILD", "1", None, 0>>,
     <<"MILD", "2", None, 25>>,
     <<"MILD", "3", Some(3), 10>>,
     <<"MILD", "", None, 0>>,
     <<"WBTB", "3", Some(9), 25>>}

\* the clock does not run backwards: no day before the last record's
FirstDay(history) == IF history = <<>> THEN 1 ELSE DayOf(history[Len(history)].date)

CmdTrain ==
    \E a \in PracticeInputs, d \in 1..MaxDay :
        /\ d >= FirstDay(load_technique_history)
        /\ PracticeTechnique(a[1], a[2], a[3], a[4], d)

CmdAnalyze == Analyze

PracticeNext == CmdTrain \/ CmdAnalyze

PracticeSpec == PracticeInit /\ [][PracticeNext]_vars

(***************************************************************************)
(* The sequencer's state, read off the two background threads.             *)
(***************************************************************************)
SeqState ==
    CASE t1_pc = "none" -> "Unscheduled"
      [] t1_pc = "sleep" -> "Idle"
      [] t1_pc \in {"alert", "blink", "announce"} -> "Ringing"
      [] t1_pc = "done" /\ t2_pc # "done" -> "AwakeCountdown"
      [] OTHER -> "Completed"

Flashes == [i \in 1..BlinkCount |-> Ev("flash", i - 1)]
Ticks(n) == [i \in 1..n |-> Ev("remaining", n + 1 - i)]

\* everything a complete firing sequence emits, in order
Expected(n) ==
    <<Ev("alarm_banner", n), Ev("alarm_sound", 0)>> \o Flashes
        \o <<Ev("triggered_at", 0), Ev("awake_started", n)>> \o Ticks(n)
        \o <<Ev("return_to_sleep", 0), Ev("sleep_cue", 0)>>

MaxOf(S) == CHOOSE x \in S : \A y \in S : y <= x

Stored == alarms_file.alarms

(***************************************************************************)
(* C1.  The flag is false from program start until the delay elapses, true *)
(* from the Idle -> Ringing step on, and false again only from the         *)
(* AwakeCountdown -> Completed step on: it is true exactly while the       *)
(* sequencer is in Ringing or AwakeCountdown, whatever the foreground and  *)
(* the keyboard do.                                                        *)
(***************************************************************************)
C1_FlagTracksSequencer ==
    ALARM_ACTIVE = (SeqState \in {"Ringing", "AwakeCountdown"})

C1_Witness == SeqState = "Completed" /\ ~ALARM_ACTIVE /\ fg_pc = "wait_sleep"

(***************************************************************************)
(* C2.  Within a firing sequence: flag set, alert loop, countdown ticks    *)
(* from awake_minutes down to 1, return-to-sleep cue, flag cleared.  What  *)
(* has been emitted is always a prefix of the complete sequence, nothing   *)
(* is emitted before the flag is set, and the flag is cleared only when    *)
(* everything, the cue included, has been emitted.                         *)
(***************************************************************************)
C2_Order ==
    /\ IsPrefix(out, Expected(awake_minutes))
    /\ (t1_pc \in {"none", "sleep"} => out = <<>> /\ ~ALARM_ACTIVE)
    /\ (t1_pc \notin {"none", "sleep"} /\ ~ALARM_ACTIVE
            => out = Expected(awake_minutes) /\ t2_pc = "done")

C2_Witness ==
    /\ t2_pc = "done"
    /\ ~ALARM_ACTIVE
    /\ awake_minutes >= 2
    /\ out = Expected(awake_minutes)

(***************************************************************************)
(* C3.  The foreground takes the cancel exit only while the sequencer is   *)
(* still Idle: never once the flag has been set.                           *)
(***************************************************************************)
C3_CancelOnlyFromIdle ==
    fg_pc = "cancelled" => (SeqState = "Idle" /\ ~ALARM_ACTIVE)

(***************************************************************************)
(* C4.  If 'q' is never pressed, a foreground loop that has started        *)
(* eventually ends, by the "awake period completed" exit.                  *)
(***************************************************************************)
C4_ForegroundTerminates ==
    ([](\A i \in 1..Len(keys) : keys[i] # "q"))
        => ((fg_pc = "poll") ~> (fg_pc = "completed"))

(***************************************************************************)
(* C5.  The delay is that to today's occurrence of wake_time when that is  *)
(* strictly later than now, else to the occurrence 24 h after it, in whole *)
(* seconds, truncated: 06:30 asked at 22:00 gives 30600 s, at 07:00        *)
(* 84600 s.                                                                *)
(***************************************************************************)
C5_Delay ==
    result = "ok" =>
        LET today == WakeToday(ParseHM(wake_time))
            target == IF today > now THEN today ELSE today + DayMs
        IN  /\ secs * 1000 <= target - now
            /\ target - now < (secs + 1) * 1000
            /\ (wake_time = W0630 /\ now = Ms(22, 0, 0, 0) => secs = 30600)
            /\ (wake_time = W0630 /\ now = Ms(7, 0, 0, 0) => secs = 84600)

C5_Witness ==
    /\ result = "ok"
    /\ wake_time = W0630
    /\ now = Ms(7, 0, 0, 500)
    /\ secs = 84599

(***************************************************************************)
(* C6, as claimed.  The delay lies in 1..86400 s, never zero, and is       *)
(* 86400 s when wake_time equals the current time of day exactly.          *)
(***************************************************************************)
C6_DelayPositive ==
    result = "ok" =>
        /\ secs \in 1..86400
        /\ (now = WakeToday(ParseHM(wake_time)) => secs = 86400)

(***************************************************************************)
(* C6, amended.  The delay lies in 0..86400 s; it is 86400 s when          *)
(* wake_time equals the current time of day exactly, and 0 s exactly when  *)
(* the next occurrence of wake_time (today's if strictly later than now,   *)
(* else tomorrow's) is less than one second away.                          *)
(***************************************************************************)
C6_DelayRange ==
    result = "ok" =>
        LET today == WakeToday(ParseHM(wake_time))
            target == IF today > now THEN today ELSE today + DayMs
        IN  /\ secs \in 0..86400
            /\ (now = today => secs = 86400)
            /\ (secs = 0 <=> target - now < 1000)

C6_Witness ==
    /\ result = "ok"
    /\ now = WakeToday(ParseHM(wake_time))
    /\ secs = 86400

(***************************************************************************)
(* C7.  A 'set alarm' whose wake_time does not parse fails with            *)
(* InvalidTimeFormat, leaves the persisted collection as it was and starts *)
(* no background thread.                                                   *)
(***************************************************************************)
C7_InvalidTimeLeavesStore ==
    [][result' = "InvalidTimeFormat"
          => (alarms_file' = alarms_file /\ t1_pc' = "none")]_vars

C9_IdsDistinct ==
    \A i, j \in 1..Len(Stored) : i # j => Stored[i].id # Stored[j].id

C9_Witness ==
    /\ Len(Stored) = 3
    /\ Stored[1].id = 2
    /\ Stored[1].success = Some(TRUE)
    /\ maxAssigned = 4

(***************************************************************************)
(* C10, as claimed.  An id assigned later is never smaller than an id      *)
(* assigned earlier.                                                       *)
(***************************************************************************)
C10_AssignedNonDecreasing == lastAssigned >= maxAssigned

(***************************************************************************)
(* C10, amended.  An id assigned by 'set alarm' is greater than the id of  *)
(* every alarm stored at that moment: it is never smaller than an earlier  *)
(* id whose alarm is still stored.                                         *)
(***************************************************************************)
C10_AssignedAboveStored ==
    [][Len(alarms_file'.alarms) > Len(Stored)
          => \A i \in 1..Len(Stored) : Stored[i].id < lastAssigned']_vars

C10_Witness ==
    /\ Len(Stored) = 1
    /\ Stored[1].id = 1
    /\ lastAssigned = 1
    /\ maxAssigned = 2

\* a step of `alarm cancel`: the status line it printed names the id
IsCancelOf(m) == m.text \in {"canceled", "not_found"}

(***************************************************************************)
(* C11.  'cancel alarm' with an id no stored alarm has, on a non-empty     *)
(* collection, succeeds, reports 'not found' and leaves the persisted      *)
(* collection as it was.                                                   *)
(***************************************************************************)
C11_CancelAbsentId ==
    [][(IsCancelOf(message') /\ Stored # <<>> /\ message'.n \notin Ids(Stored))
          => /\ message'.text = "not_found"
             /\ result' = "ok"
             /\ alarms_file' = alarms_file]_vars

C11_Witness ==
    /\ message = Msg("not_found", 2)
    /\ result = "ok"
    /\ Len(Stored) = 2
    /\ Ids(Stored) = {1, 3}

(***************************************************************************)
(* C12.  'cancel alarm' with an id present in the collection removes the   *)
(* first alarm in stored order with that id and nothing else: the others   *)
(* stay, unchanged and in the same order.                                  *)
(***************************************************************************)
C12_CancelRemovesOne ==
    [][(IsCancelOf(message') /\ message'.n \in Ids(Stored))
          => \E k \in 1..Len(Stored) :
                /\ Stored[k].id = message'.n
                /\ \A j \in 1..(k - 1) : Stored[j].id # message'.n
                /\ message'.text = "canceled"
                /\ alarms_file'.kind = "json"
                /\ alarms_file'.alarms =
                       [i \in 1..(Len(Stored) - 1) |->
                           IF i < k THEN Stored[i] ELSE Stored[i + 1]]]_vars

C12_Witness ==
    /\ message = Msg("canceled", 1)
    /\ Len(Stored) = 2
    /\ Stored[1].id = 2
    /\ Stored[2].id = 3

(***************************************************************************)
(* C13.  Loading gives the empty collection when alarms.json is absent     *)
(* (set then stores exactly alarm 1, list reports no alarms) and fails     *)
(* when the document is malformed: every command that loads first then     *)
(* fails with a persistence error and leaves the document as it was.       *)
(***************************************************************************)
C13_LoadAbsentOrMalformed ==
    [][/\ alarms_file.kind = "malformed"
            => (result' = "PersistenceError" /\ alarms_file' = alarms_file)
       /\ (alarms_file.kind = "absent" /\ message'.text = "alarm_set")
            => (Len(alarms_file'.alarms) = 1 /\ alarms_file'.alarms[1].id = 1)
       /\ (alarms_file.kind = "absent" /\ message'.text \in {"no_alarms", "listed"})
            => (message'.text = "no_alarms" /\ result' = "ok"
                    /\ alarms_file' = alarms_file)]_vars

C13_Witness ==
    /\ alarms_file = Malformed
    /\ result = "PersistenceError"
    /\ fg_pc = "failed"

(***************************************************************************)
(* The practice history as stored, record by record, and the records of    *)
(* one technique.                                                          *)
(***************************************************************************)
Doc == history_file.doc

RecordsOf(t) == {i \in 1..Len(Doc) : Doc[i].technique = t}

SuccessesOf(t) == {i \in RecordsOf(t) : Doc[i].outcome.type \in {"PartialLucid", "FullLucid"}}

OutcomesOf(t) ==
    LET IsOfT(r) == r.technique = t
        recs == SelectSeq(Doc, IsOfT)
    IN  [i \in 1..Len(recs) |-> recs[i].outcome.type]

(***************************************************************************)
(* C14.  The statistics computed from a history have an entry for exactly  *)
(* the techniques with a record; its attempts is the number of the         *)
(* technique's records, its successes the number of those whose outcome is *)
(* PartialLucid or FullLucid, and its success_rate is successes / attempts *)
(* x 100.  Outcomes Failed, PartialLucid, FullLucid, Unattempted give      *)
(* attempts 4, successes 2, rate 50.                                       *)
(***************************************************************************)
C14_Stats ==
    stats.computed =>
        /\ DOMAIN stats.by = {Doc[i].technique : i \in 1..Len(Doc)}
        /\ \A t \in DOMAIN stats.by :
              /\ stats.by[t].attempts = Cardinality(RecordsOf(t))
              /\ stats.by[t].successes = Cardinality(SuccessesOf(t))
              /\ stats.by[t].success_rate.den > 0
              /\ stats.by[t].success_rate.num * Cardinality(RecordsOf(t))
                    = Cardinality(SuccessesOf(t)) * 100 * stats.by[t].success_rate.den
              /\ OutcomesOf(t) = <<"Failed", "PartialLucid", "FullLucid", "Unattempted">>
                    => /\ stats.by[t].attempts = 4
                       /\ stats.by[t].successes = 2
                       /\ stats.by[t].success_rate.num = 50 * stats.by[t].success_rate.den

C14_Witness ==
    /\ stats.computed
    /\ OutcomesOf("MILD") = <<"Failed", "PartialLucid", "FullLucid", "Unattempted">>
    /\ stats.by["MILD"].successes = 2

(***************************************************************************)
(* C15.  The last_practiced of a technique's statistics is the date of the *)
(* last record of that technique in the history.                           *)
(***************************************************************************)
C15_LastPracticed ==
    stats.computed =>
        \A t \in DOMAIN stats.by :
            stats.by[t].last_practiced = Doc[MaxOf(RecordsOf(t))].date

(***************************************************************************)
(* C16.  Every step that writes the practice history leaves the records    *)
(* already stored where they were, unchanged, adds exactly one at the end, *)
(* and loading the new history returns the old one followed by the record  *)
(* given to the step, every field as given.                                *)
(***************************************************************************)
C16_AppendOnly ==
    [][history_file' # history_file =>
          /\ history_file'.kind = "json"
          /\ Len(history_file'.doc) = Len(ReadHistory(history_file)) + 1
          /\ history_file.kind = "json" =>
                \A i \in 1..Len(Doc) : history_file'.doc[i] = Doc[i]
          /\ \E a \in PracticeInputs, d \in 1..MaxDay :
                ReadHistory(history_file') =
                    Append(ReadHistory(history_file),
                           [technique |-> a[1],
                            date |-> Dates[d],
                            duration_minutes |-> a[4],
                            outcome |-> SelectOutcome(a[2], a[3])])]_vars

C16_Witness ==
    /\ Len(Doc) = 3
    /\ Doc[1].outcome = [type |-> "FullLucid", data |-> [control_level |-> 5]]
    /\ Doc[2].outcome = [type |-> "Failed"]
    /\ Doc[3].date = "2026-01-02"
    /\ Doc[3].duration_minutes = 10

(***************************************************************************)
(* C17.  A sequence that has begun is never left unfinished: once the      *)
(* process has ended, by either exit of the foreground loop, the sequencer *)
(* is not in Ringing or AwakeCountdown (it never started, or it reached    *)
(* Completed).                                                             *)
(***************************************************************************)
C17_BegunSequenceCompletes ==
    fg_pc \in {"cancelled", "completed"} => SeqState \in {"Idle", "Completed"}

(***************************************************************************)
(* C18.  After the cancel exit taken while the sequencer is Idle nothing   *)
(* happens to the sequencer: it stays Idle, the flag stays false and       *)
(* nothing is emitted.                                                     *)
(***************************************************************************)
C18_CancelWhileIdleEndsTimer ==
    [][(fg_pc = "cancelled" /\ SeqState = "Idle")
          => (/\ SeqState' = "Idle"
              /\ ~ALARM_ACTIVE'
              /\ out' = <<>>
              /\ fg_pc' = "cancelled")]_vars

C18_Witness ==
    /\ fg_pc = "cancelled"
    /\ SeqState = "Idle"
    /\ ~ALARM_ACTIVE
    /\ out = <<>>
    /\ keys = <<>>

(***************************************************************************)
(* C19.  The countdown reports the remaining minutes awake_minutes, ..., 1 *)
(* in that order, one per iteration, and nothing else: while it runs the   *)
(* reports made are those from awake_minutes down to min + 1, and when it  *)
(* has left the loop there are exactly awake_minutes of them; none for     *)
(* awake_minutes = 0, where the cue and the clearing of the flag follow at *)
(* once.                                                                   *)
(***************************************************************************)
Reports ==
    LET IsReport(e) == e.ev = "remaining"
    IN  SelectSeq(out, IsReport)

C19_Countdown ==
    /\ t2_pc \in {"none", "start"} => Reports = <<>>
    /\ t2_pc = "tick" =>
          /\ min \in 0..awake_minutes
          /\ Reports = SubSeq(Ticks(awake_minutes), 1, awake_minutes - min)
    /\ t2_pc \in {"cue", "clear", "done"} =>
          /\ min = 0
          /\ Len(Reports) = awake_minutes
          /\ \A i \in 1..awake_minutes : Reports[i] = Ev("remaining", awake_minutes + 1 - i)
    /\ (awake_minutes = 0 /\ t2_pc = "done") =>
          /\ ~ALARM_ACTIVE
          /\ SubSeq(out, Len(out) - 2, Len(out))
                = <<Ev("awake_started", 0), Ev("return_to_sleep", 0), Ev("sleep_cue", 0)>>

C19_Witness ==
    /\ t2_pc = "cue"
    /\ awake_minutes = 2
    /\ Reports = <<Ev("remaining", 2), Ev("remaining", 1)>>

(***************************************************************************)
(* C20.  Inside the inner loop the foreground reads no key and leaves only *)
(* by reading the flag as false; whenever it has reported "Awake period    *)
(* completed" the sequencer is in Completed, everything emitted, the cue   *)
(* included.                                                               *)
(***************************************************************************)
ReportedCompleted ==
    fg_pc = "completed" =>
        /\ SeqState = "Completed"
        /\ ~ALARM_ACTIVE
        /\ out = Expected(awake_minutes)

InnerLoopStep ==
    fg_pc \in {"waiting", "wait_sleep"} =>
        /\ IsPrefix(keys, keys')
        /\ fg_pc' \in {"waiting", "wait_sleep", "completed"}
        /\ fg_pc' = "completed" => ~ALARM_ACTIVE

C20_CompletedMeansCompleted == []ReportedCompleted /\ [][InnerLoopStep]_vars

C20_Witness ==
    /\ fg_pc = "completed"
    /\ SeqState = "Completed"
    /\ awake_minutes = 1
    /\ out = Expected(1)

(***************************************************************************)
(* C21.  After any sequence of set, cancel and daily-entry commands from   *)
(* an empty store the ids of the persisted alarms are strictly increasing  *)
(* in stored order: the last alarm's id is the maximum id, so last id + 1  *)
(* is maximum id + 1.                                                      *)
(***************************************************************************)
C21_IdsIncreasing ==
    /\ \A i \in 1..(Len(Stored) - 1) : Stored[i].id < Stored[i + 1].id
    /\ Stored # <<>> =>
          /\ Stored[Len(Stored)].id = MaxOf(Ids(Stored))
          /\ Stored[Len(Stored)].id + 1 = MaxOf(Ids(Stored)) + 1

C21_Witness ==
    /\ Len(Stored) = 2
    /\ Stored[1].id = 1
    /\ Stored[1].success = Some(TRUE)
    /\ Stored[2].id = 3
    /\ message = Msg("daily", 0)

====
